---- MODULE Spec2Model ----
(***************************************************************************)
(* Kids-fashion storefront backend (FastAPI + MongoDB): the request        *)
(* handlers of main.py and the validation schemas of schemas.py.           *)
(*                                                                         *)
(* Python values are tagged records [t |-> type, v |-> payload].  A str    *)
(* is the tuple of its characters, so that matching, case folding and the  *)
(* ObjectId <-> str conversions are computed and not assumed.  A float     *)
(* is an IEEE 754 double at its full width, so that price * quantity,      *)
(* the sums and round(x, 2) give what CPython gives.                       *)
(***************************************************************************)
EXTENDS Integers, Sequences, FiniteSets, TLC

VARIABLES
    db,        \* database.db: "None" (store unconfigured) or "Database"
    product,   \* collection "product": documents in insertion order
    order,     \* collection "order": documents in insertion order
    nextId,    \* number of ObjectIds the store has generated so far
    req,       \* the request being served (operation and its inputs)
    resp,      \* the HTTP response to req: [code, body]
    pc,        \* per concurrent seed request: its position in seed_products
    existing,  \* per concurrent seed request: local `existing`
    inserted,  \* per concurrent seed request: local `inserted`
    serIn,     \* argument of a serialize_mongo call
    serOut,    \* its result, or Unset before the call
    nCreated   \* history: create_order calls answered 200 so far

vars == <<db, product, order, nextId, req, resp, pc, existing, inserted, serIn, serOut, nCreated>>

\* ------------------------------------------------------------------ bounds

MaxOrders == 2   \* order documents created in one run
MaxItems == 2    \* items of one order draft
NumProcs == 2    \* seed requests in flight at once

\* ------------------------------------------------------------ Python values

None == [t |-> "None"]
Str(s) == [t |-> "str", v |-> s]
IntV(n) == [t |-> "int", v |-> n]
Float(m) == [t |-> "float", v |-> m]
Bool(b) == [t |-> "bool", v |-> b]
List(s) == [t |-> "list", v |-> s]
Dict(f) == [t |-> "dict", v |-> f]
ObjectIdV(h) == [t |-> "ObjectId", v |-> h]
Unset == [t |-> "unset"]

\* Python truthiness of the values the handlers test (`if not doc`, `if q`).
Truthy(x) ==
    CASE x.t = "None" -> FALSE
      [] x.t = "str" -> Len(x.v) > 0
      [] x.t = "list" -> Len(x.v) > 0
      [] x.t = "dict" -> DOMAIN x.v # {}
      [] OTHER -> TRUE

\* dict with one more key (or the key overwritten)
SetKey(f, k, x) == [j \in DOMAIN f \cup {k} |-> IF j = k THEN x ELSE f[j]]

UpperChars == <<"A", "B", "C", "D", "E", "F", "G", "H", "I", "J", "K", "L", "M", "N", "O", "P", "Q", "R", "S", "T", "U", "V", "W", "X", "Y", "Z">>
LowerChars == <<"a", "b", "c", "d", "e", "f", "g", "h", "i", "j", "k", "l", "m", "n", "o", "p", "q", "r", "s", "t", "u", "v", "w", "x", "y", "z">>

\* str.lower() of one character: only A..Z change
LowerMap == [c \in {UpperChars[i] : i \in DOMAIN UpperChars} |->
                LowerChars[CHOOSE i \in DOMAIN UpperChars : UpperChars[i] = c]]

LowerChar(c) == IF c \in DOMAIN LowerMap THEN LowerMap[c] ELSE c

Lower(s) == [i \in DOMAIN s |-> LowerChar(s[i])]

\* ------------------------------------------------------------ Python float

\* A float is an IEEE 754 double: [neg, m, e] stands for (-1)^neg * m * 2^e with
\* m = 0 (and e = 0) or 2^52 <= m < 2^53.  m is a natural number held as its
\* digits in base 2^15, least significant first, without leading zeros, so the
\* arithmetic below is exact at the full width of a double.  Infinities, NaN,
\* subnormals and the sign of zero are left out: no amount comes near them.
Base == 2^15

RECURSIVE Trim(_)
Trim(a) == IF a = <<>> \/ a[Len(a)] # 0 THEN a ELSE Trim(SubSeq(a, 1, Len(a) - 1))

RECURSIVE BigOfInt(_)
BigOfInt(n) == IF n = 0 THEN <<>> ELSE <<n % Base>> \o BigOfInt(n \div Base)

RECURSIVE IntOfBig(_)
IntOfBig(a) == IF a = <<>> THEN 0 ELSE a[1] + Base * IntOfBig(Tail(a))

RECURSIVE BigAddFrom(_, _, _, _)
BigAddFrom(a, b, i, carry) ==
    IF i > Len(a) /\ i > Len(b) THEN BigOfInt(carry)
    ELSE LET t == (IF i <= Len(a) THEN a[i] ELSE 0) + (IF i <= Len(b) THEN b[i] ELSE 0) + carry
         IN  <<t % Base>> \o BigAddFrom(a, b, i + 1, t \div Base)

BigAdd(a, b) == BigAddFrom(a, b, 1, 0)

\* a - b for a >= b
RECURSIVE BigSubFrom(_, _, _, _)
BigSubFrom(a, b, i, borrow) ==
    IF i > Len(a) THEN <<>>
    ELSE LET t == a[i] - (IF i <= Len(b) THEN b[i] ELSE 0) - borrow
         IN  <<t % Base>> \o BigSubFrom(a, b, i + 1, IF t < 0 THEN 1 ELSE 0)

BigSub(a, b) == Trim(BigSubFrom(a, b, 1, 0))

\* -1, 0 or 1 as a < b, a = b or a > b
RECURSIVE BigCmpFrom(_, _, _)
BigCmpFrom(a, b, i) ==
    IF i = 0 THEN 0
    ELSE IF a[i] < b[i] THEN -1
    ELSE IF a[i] > b[i] THEN 1
    ELSE BigCmpFrom(a, b, i - 1)

BigCmp(a, b) ==
    IF Len(a) < Len(b) THEN -1
    ELSE IF Len(a) > Len(b) THEN 1
    ELSE BigCmpFrom(a, b, Len(a))

\* a * n for 0 <= n < Base
RECURSIVE BigMulFrom(_, _, _, _)
BigMulFrom(a, n, i, carry) ==
    IF i > Len(a) THEN BigOfInt(carry)
    ELSE LET t == a[i] * n + carry
         IN  <<t % Base>> \o BigMulFrom(a, n, i + 1, t \div Base)

BigMul(a, n) == Trim(BigMulFrom(a, n, 1, 0))

\* quotient and remainder of a by n, for 0 < n < Base
RECURSIVE BigDivFrom(_, _, _, _)
BigDivFrom(a, n, i, rem) ==
    IF i = 0 THEN [q |-> <<>>, r |-> rem]
    ELSE LET cur == rem * Base + a[i]
             low == BigDivFrom(a, n, i - 1, cur % n)
         IN  [q |-> Append(low.q, cur \div n), r |-> low.r]

BigDiv(a, n) ==
    LET d == BigDivFrom(a, n, Len(a), 0)
    IN  [q |-> Trim(d.q), r |-> d.r]

\* a * 2^k and the integer part of a / 2^k
ShiftLeft(a, k) ==
    IF a = <<>> THEN <<>>
    ELSE [i \in 1..(k \div 15) |-> 0] \o BigMul(a, 2^(k % 15))

ShiftRight(a, k) ==
    IF k \div 15 >= Len(a) THEN <<>>
    ELSE BigDiv(SubSeq(a, (k \div 15) + 1, Len(a)), 2^(k % 15)).q

RECURSIVE BitLenInt(_)
BitLenInt(n) == IF n = 0 THEN 0 ELSE 1 + BitLenInt(n \div 2)

BitLen(a) == IF a = <<>> THEN 0 ELSE 15 * (Len(a) - 1) + BitLenInt(a[Len(a)])

FZero == [neg |-> FALSE, m |-> <<>>, e |-> 0]

\* the integer nearest to n / 2^k, a tie going to the even one (sticky tells
\* that something was already cut off below n)
RoundShift(n, k, sticky) ==
    LET q == ShiftRight(n, k)
        r == BigSub(n, ShiftLeft(q, k))
        c == BigCmp(r, ShiftLeft(<<1>>, k - 1))
        up == c > 0 \/ (c = 0 /\ (sticky \/ (q # <<>> /\ q[1] % 2 = 1)))
    IN  IF up THEN BigAdd(q, <<1>>) ELSE q

\* the double nearest to (-1)^neg * n * 2^e (round to nearest, ties to even);
\* sticky tells that the exact value lies strictly above n * 2^e, by less than 2^e
RoundToDouble(neg, n, e, sticky) ==
    IF n = <<>> THEN FZero
    ELSE LET bits == BitLen(n)
         IN  IF bits <= 53
             THEN [neg |-> neg, m |-> ShiftLeft(n, 53 - bits), e |-> e - (53 - bits)]
             ELSE LET q == RoundShift(n, bits - 53, sticky)
                  IN  IF BitLen(q) > 53
                      THEN [neg |-> neg, m |-> ShiftRight(q, 1), e |-> e + (bits - 53) + 1]
                      ELSE [neg |-> neg, m |-> q, e |-> e + (bits - 53)]

\* float("c/den"): the double a decimal literal denotes, c >= 0 and 0 < den < Base
FloatOfRatio(neg, c, den) ==
    LET d == BigDiv(ShiftLeft(BigOfInt(c), 75), den)
    IN  RoundToDouble(neg, d.q, -75, d.r # 0)

FloatOfInt(n) == FloatOfRatio(n < 0, IF n < 0 THEN -n ELSE n, 1)

\* x * n, float by int
FMulInt(x, n) ==
    RoundToDouble(x.neg # (n < 0), BigMul(x.m, IF n < 0 THEN -n ELSE n), x.e, FALSE)

\* x + y
FAdd(x, y) ==
    IF x.m = <<>> THEN y
    ELSE IF y.m = <<>> THEN x
    ELSE LET e == IF x.e < y.e THEN x.e ELSE y.e
             a == ShiftLeft(x.m, x.e - e)
             b == ShiftLeft(y.m, y.e - e)
         IN  IF x.neg = y.neg THEN RoundToDouble(x.neg, BigAdd(a, b), e, FALSE)
             ELSE IF BigCmp(a, b) >= 0 THEN RoundToDouble(x.neg, BigSub(a, b), e, FALSE)
             ELSE RoundToDouble(y.neg, BigSub(b, a), e, FALSE)

\* round(x, 2): the exact value of x rounded to hundredths, ties to even, and
\* the double nearest to that decimal
round2(x) ==
    IF x.m = <<>> \/ x.e >= 0 THEN x
    ELSE FloatOfRatio(x.neg, IntOfBig(RoundShift(BigMul(x.m, 100), -x.e, FALSE)), 100)

\* ------------------------------------------------------------ bson.ObjectId

HexChars == <<"0", "1", "2", "3", "4", "5", "6", "7", "8", "9", "a", "b", "c", "d", "e", "f">>

HexSet == {HexChars[i] : i \in DOMAIN HexChars}

IsHexChar(c) == LowerChar(c) \in HexSet

\* ObjectId(s) of a str: 24 hexadecimal characters, or InvalidId is raised.
ObjectIdValid(s) == Len(s) = 24 /\ \A i \in DOMAIN s : IsHexChar(s[i])

\* ObjectId(s): the 12 bytes the hexadecimal digits spell, in either case.
ObjectIdOf(s) == ObjectIdV(Lower(s))

\* str(x): an ObjectId prints as its 24 lower-case hexadecimal digits.
str(x) == x.v

\* ----------------------------------------------------------- serialization

serialize_mongo(doc) ==
    IF ~Truthy(doc) THEN doc
    ELSE LET d0 == doc.v
             d1 == IF "_id" \in DOMAIN d0
                   THEN [k \in (DOMAIN d0 \ {"_id"}) \cup {"id"} |->
                            IF k = "id" THEN Str(str(d0["_id"])) ELSE d0[k]]
                   ELSE d0
         IN  Dict([k \in DOMAIN d1 |->
                      IF d1[k].t = "ObjectId" THEN Str(str(d1[k])) ELSE d1[k]])

\* ------------------------------------------------------- persistence adapter

\* The identifiers the store generates: distinct for distinct n.
NewObjectId(n) ==
    ObjectIdV(<<"6", "5", "f", "0", "a", "1", "b", "2", "c", "3", "d", "4", "e", "5", "f", "6", "a", "7", "b", "8", "c", "9">> \o <<HexChars[((n \div 16) % 16) + 1], HexChars[(n % 16) + 1]>>)

\* insert_one: the collection with the document appended under a fresh _id
InsertOne(coll, data, n) == Append(coll, Dict(SetKey(data, "_id", NewObjectId(n))))

\* create_document(collection, data): returns the new identifier as a str
create_document_id(n) == str(NewObjectId(n))

\* ------------------------------------------------------------- sample data

samples == <<
    [title |-> Str(<<"B", "o", "y", "s", " ", "C", "o", "t", "t", "o", "n", " ", "T", "-", "S", "h", "i", "r", "t">>),
     description |-> Str(<<"S", "o", "f", "t", " ", "c", "o", "t", "t", "o", "n", " ", "t", "e", "e", " ", "f", "o", "r", " ", "e", "v", "e", "r", "y", "d", "a", "y", " ", "c", "o", "m", "f", "o", "r", "t">>),
     price_bdt |-> Float(FloatOfInt(450)),
     category |-> Str(<<"B", "o", "y", "s">>),
     brand |-> Str(<<"K", "i", "d", "d", "o">>),
     sizes |-> List(<<Str(<<"2", "-", "3", "Y">>), Str(<<"4", "-", "5", "Y">>), Str(<<"6", "-", "7", "Y">>)>>),
     colors |-> List(<<Str(<<"B", "l", "u", "e">>), Str(<<"R", "e", "d">>)>>),
     images |-> List(<<Str(<<"h", "t", "t", "p", "s", ":", "/", "/", "i", "m", "a", "g", "e", "s", ".", "u", "n", "s", "p", "l", "a", "s", "h", ".", "c", "o", "m", "/", "p", "h", "o", "t", "o", "-", "1", "6", "0", "1", "0", "5", "0", "6", "9", "0", "5", "9", "7", "-", "9", "c", "3", "3", "a", "4", "e", "e", "5", "a", "d", "5", "?", "w", "=", "8", "0", "0", "&", "q", "=", "8", "0">>)>>),
     in_stock |-> Bool(TRUE),
     stock_qty |-> IntV(50),
     age_range |-> Str(<<"2", "-", "7", "Y">>),
     rating |-> Float(FloatOfRatio(FALSE, 45, 10))],
    [title |-> Str(<<"G", "i", "r", "l", "s", " ", "F", "l", "o", "r", "a", "l", " ", "D", "r", "e", "s", "s">>),
     description |-> Str(<<"L", "i", "g", "h", "t", "w", "e", "i", "g", "h", "t", " ", "f", "l", "o", "r", "a", "l", " ", "p", "r", "i", "n", "t", " ", "d", "r", "e", "s", "s", ",", " ", "p", "e", "r", "f", "e", "c", "t", " ", "f", "o", "r", " ", "s", "u", "m", "m", "e", "r">>),
     price_bdt |-> Float(FloatOfInt(1250)),
     category |-> Str(<<"G", "i", "r", "l", "s">>),
     brand |-> Str(<<"M", "i", "n", "i", "B", "l", "o", "o", "m">>),
     sizes |-> List(<<Str(<<"2", "-", "3", "Y">>), Str(<<"3", "-", "4", "Y">>), Str(<<"5", "-", "6", "Y">>), Str(<<"7", "-", "8", "Y">>)>>),
     colors |-> List(<<Str(<<"P", "i", "n", "k">>), Str(<<"Y", "e", "l", "l", "o", "w">>)>>),
     images |-> List(<<Str(<<"h", "t", "t", "p", "s", ":", "/", "/", "i", "m", "a", "g", "e", "s", ".", "u", "n", "s", "p", "l", "a", "s", "h", ".", "c", "o", "m", "/", "p", "h", "o", "t", "o", "-", "1", "5", "2", "0", "9", "7", "5", "9", "2", "2", "1", "1", "7", "-", "9", "c", "e", "8", "b", "d", "b", "0", "0", "0", "a", "6", "?", "w", "=", "8", "0", "0", "&", "q", "=", "8", "0">>)>>),
     in_stock |-> Bool(TRUE),
     stock_qty |-> IntV(20),
     age_range |-> Str(<<"2", "-", "8", "Y">>),
     rating |-> Float(FloatOfRatio(FALSE, 48, 10))],
    [title |-> Str(<<"B", "a", "b", "y", " ", "R", "o", "m", "p", "e", "r", " ", "S", "e", "t">>),
     description |-> Str(<<"O", "r", "g", "a", "n", "i", "c", " ", "c", "o", "t", "t", "o", "n", " ", "r", "o", "m", "p", "e", "r", " ", "s", "e", "t", " ", "f", "o", "r", " ", "n", "e", "w", "b", "o", "r", "n", "s">>),
     price_bdt |-> Float(FloatOfInt(990)),
     category |-> Str(<<"B", "a", "b", "y">>),
     brand |-> Str(<<"T", "i", "n", "y", "C", "a", "r", "e">>),
     sizes |-> List(<<Str(<<"0", "-", "3", "M">>), Str(<<"3", "-", "6", "M">>), Str(<<"6", "-", "9", "M">>)>>),
     colors |-> List(<<Str(<<"M", "i", "n", "t">>), Str(<<"C", "r", "e", "a", "m">>)>>),
     images |-> List(<<Str(<<"h", "t", "t", "p", "s", ":", "/", "/", "i", "m", "a", "g", "e", "s", ".", "u", "n", "s", "p", "l", "a", "s", "h", ".", "c", "o", "m", "/", "p", "h", "o", "t", "o", "-", "1", "6", "1", "9", "1", "7", "7", "0", "9", "7", "9", "9", "9", "-", "8", "9", "c", "3", "b", "1", "e", "d", "b", "b", "a", "9", "?", "w", "=", "8", "0", "0", "&", "q", "=", "8", "0">>)>>),
     in_stock |-> Bool(TRUE),
     stock_qty |-> IntV(30),
     age_range |-> Str(<<"0", "-", "9", "M">>),
     rating |-> Float(FloatOfRatio(FALSE, 46, 10))],
    [title |-> Str(<<"K", "i", "d", "s", " ", "H", "o", "o", "d", "e", "d", " ", "J", "a", "c", "k", "e", "t">>),
     description |-> Str(<<"W", "a", "r", "m", " ", "f", "l", "e", "e", "c", "e", "-", "l", "i", "n", "e", "d", " ", "j", "a", "c", "k", "e", "t", " ", "f", "o", "r", " ", "w", "i", "n", "t", "e", "r">>),
     price_bdt |-> Float(FloatOfInt(1850)),
     category |-> Str(<<"W", "i", "n", "t", "e", "r", " ", "W", "e", "a", "r">>),
     brand |-> Str(<<"W", "a", "r", "m", "y">>),
     sizes |-> List(<<Str(<<"3", "-", "4", "Y">>), Str(<<"5", "-", "6", "Y">>), Str(<<"7", "-", "8", "Y">>), Str(<<"9", "-", "1", "0", "Y">>)>>),
     colors |-> List(<<Str(<<"N", "a", "v", "y">>), Str(<<"G", "r", "e", "y">>)>>),
     images |-> List(<<Str(<<"h", "t", "t", "p", "s", ":", "/", "/", "i", "m", "a", "g", "e", "s", ".", "u", "n", "s", "p", "l", "a", "s", "h", ".", "c", "o", "m", "/", "p", "h", "o", "t", "o", "-", "1", "5", "2", "0", "9", "7", "5", "9", "2", "2", "1", "1", "7", "-", "9", "c", "e", "8", "b", "d", "b", "0", "0", "0", "a", "6", "?", "w", "=", "8", "0", "0", "&", "q", "=", "8", "0">>)>>),
     in_stock |-> Bool(TRUE),
     stock_qty |-> IntV(15),
     age_range |-> Str(<<"3", "-", "1", "0", "Y">>),
     rating |-> Float(FloatOfRatio(FALSE, 47, 10))]
>>

\* --------------------------------------------------------------- responses

Response(code, body) == [code |-> code, body |-> body]

HTTPException(status_code, detail) == Response(status_code, Dict([detail |-> Str(detail)]))

DatabaseNotConfigured == HTTPException(500, <<"D", "a", "t", "a", "b", "a", "s", "e", " ", "n", "o", "t", " ", "c", "o", "n", "f", "i", "g", "u", "r", "e", "d">>)

\* FastAPI's answer to a request that fails validation, sent before the handler runs
RequestValidationError == Response(422, Dict([detail |-> Str(<<"v", "a", "l", "i", "d", "a", "t", "i", "o", "n", " ", "e", "r", "r", "o", "r">>)]))

NoRequest == [op |-> "none"]

\* ------------------------------------------------------------ seed_products

\* seed_products with the test of `existing` off by the size of the sample set
seed_skip_late(n) == n > Len(samples)

\* `if existing > 0`
seed_skip(n) == n > 0

ProductsAlreadyExist(n) ==
    Response(200, Dict([message |-> Str(<<"P", "r", "o", "d", "u", "c", "t", "s", " ", "a", "l", "r", "e", "a", "d", "y", " ", "e", "x", "i", "s", "t">>), count |-> IntV(n)]))

SeededSampleProducts(n) ==
    Response(200, Dict([message |-> Str(<<"S", "e", "e", "d", "e", "d", " ", "s", "a", "m", "p", "l", "e", " ", "p", "r", "o", "d", "u", "c", "t", "s">>), inserted |-> IntV(n)]))

\* the collection after create_document("product", p) for the samples i..Len(samples)
RECURSIVE InsertSamples(_, _, _)
InsertSamples(coll, i, n) ==
    IF i > Len(samples) THEN coll
    ELSE InsertSamples(InsertOne(coll, samples[i], n + 1), i + 1, n + 1)

\* One seed_products request served from start to end.
SeedProducts ==
    /\ req' = [op |-> "seed_products"]
    /\ IF db = "None"
       THEN /\ resp' = DatabaseNotConfigured
            /\ UNCHANGED <<product, nextId>>
       ELSE IF seed_skip(Len(product))
       THEN /\ resp' = ProductsAlreadyExist(Len(product))
            /\ UNCHANGED <<product, nextId>>
       ELSE /\ product' = InsertSamples(product, 1, nextId)
            /\ nextId' = nextId + Len(samples)
            /\ resp' = SeededSampleProducts(Len(samples))
    /\ UNCHANGED <<db, order, pc, existing, inserted, serIn, serOut, nCreated>>

\* -------------------------------------------------------------- get_product

ProductIds ==
    { str(NewObjectId(1)),
      <<"6", "5", "F", "0", "A", "1", "B", "2", "C", "3", "D", "4", "E", "5", "F", "6", "A", "7", "B", "8", "C", "9", "0", "3">>,
      <<"5", "0", "7", "f", "1", "f", "7", "7", "b", "c", "f", "8", "6", "c", "d", "7", "9", "9", "4", "3", "9", "0", "1", "1">>,
      <<"n", "o", "t", "-", "a", "-", "v", "a", "l", "i", "d", "-", "i", "d">>,
      <<"6", "5", "f", "0", "a", "1", "b", "2", "c", "3", "d", "4", "e", "5", "f", "6", "a", "7", "b", "8", "c", "9", "0">>,
      <<"6", "5", "f", "0", "a", "1", "b", "2", "c", "3", "d", "4", "e", "5", "f", "6", "a", "7", "b", "8", "c", "9", "0", "g">> }

\* find_one({"_id": oid}): the first document with that _id, or None
find_one(coll, oid) ==
    IF \E i \in DOMAIN coll : coll[i].v["_id"] = oid
    THEN coll[CHOOSE i \in DOMAIN coll :
                 /\ coll[i].v["_id"] = oid
                 /\ \A j \in DOMAIN coll : coll[j].v["_id"] = oid => i <= j]
    ELSE None

\* get_product answering a malformed identifier like an unknown one
get_product_lenient(product_id) ==
    IF db = "None" THEN DatabaseNotConfigured
    ELSE LET doc == IF ObjectIdValid(product_id)
                    THEN find_one(product, ObjectIdOf(product_id))
                    ELSE None
         IN  IF ~Truthy(doc) THEN HTTPException(404, <<"P", "r", "o", "d", "u", "c", "t", " ", "n", "o", "t", " ", "f", "o", "u", "n", "d">>)
             ELSE Response(200, serialize_mongo(doc))

get_product(product_id) ==
    IF db = "None" THEN DatabaseNotConfigured
    ELSE IF ~ObjectIdValid(product_id) THEN HTTPException(400, <<"I", "n", "v", "a", "l", "i", "d", " ", "p", "r", "o", "d", "u", "c", "t", " ", "i", "d">>)
    ELSE LET doc == find_one(product, ObjectIdOf(product_id))
         IN  IF ~Truthy(doc) THEN HTTPException(404, <<"P", "r", "o", "d", "u", "c", "t", " ", "n", "o", "t", " ", "f", "o", "u", "n", "d">>)
             ELSE Response(200, serialize_mongo(doc))

GetProduct ==
    \E product_id \in ProductIds :
        /\ req' = [op |-> "get_product", product_id |-> product_id]
        /\ resp' = get_product(product_id)
        /\ UNCHANGED <<db, product, order, nextId, pc, existing, inserted, serIn, serOut, nCreated>>

\* ------------------------------------------------------------ list_products

limit_ge == 1
limit_le == 200

\* One character of a pattern against one of the text.  Patterns are literal
\* characters and ".", which stands for any character.
CharMatches(pc_, c, ignorecase) ==
    \/ pc_ = "."
    \/ IF ignorecase THEN LowerChar(pc_) = LowerChar(c) ELSE pc_ = c

\* {field: {"$regex": pattern, "$options": options}}: the pattern is found somewhere in text
RegexSearch(pattern, text, options) ==
    \E off \in 0..(Len(text) - Len(pattern)) :
        \A i \in 1..Len(pattern) : CharMatches(pattern[i], text[off + i], options = "i")

OrClause(field, q) == [field |-> field, regex |-> q.v, options |-> "i"]

\* filter_query without the clause on brand
filter_query_no_brand(category, q) ==
    (IF Truthy(category) THEN [category |-> category] ELSE <<>>)
    @@ (IF Truthy(q)
        THEN "$or" :> <<OrClause("title", q), OrClause("description", q)>>
        ELSE <<>>)

\* the filter_query list_products builds
filter_query(category, q) ==
    (IF Truthy(category) THEN [category |-> category] ELSE <<>>)
    @@ (IF Truthy(q)
        THEN "$or" :> <<OrClause("title", q), OrClause("description", q), OrClause("brand", q)>>
        ELSE <<>>)

ClauseHolds(d, c) ==
    /\ c.field \in DOMAIN d
    /\ d[c.field].t = "str"
    /\ RegexSearch(c.regex, d[c.field].v, c.options)

\* whether the store selects document doc under filter f
FilterHolds(doc, f) ==
    /\ "category" \in DOMAIN f =>
          ("category" \in DOMAIN doc.v /\ doc.v["category"] = f["category"])
    /\ "$or" \in DOMAIN f =>
          \E i \in DOMAIN f["$or"] : ClauseHolds(doc.v, f["$or"][i])

\* get_documents(collection, filter, limit): find(filter).limit(limit), in storage order
get_documents(coll, f, limit) ==
    LET found == SelectSeq(coll, LAMBDA d : FilterHolds(d, f))
    IN  SubSeq(found, 1, IF limit < Len(found) THEN limit ELSE Len(found))

list_products(category, q, limit) ==
    IF db = "None" THEN DatabaseNotConfigured
    ELSE LET docs == get_documents(product, filter_query(category, q), limit)
         IN  Response(200, List([i \in DOMAIN docs |-> serialize_mongo(docs[i])]))

Categories == {None, Str(<<>>), Str(<<"B", "o", "y", "s">>), Str(<<"b", "o", "y", "s">>), Str(<<"G", "i", "r", "l", "s">>)}

Queries ==
    {None, Str(<<>>), Str(<<"s", "h", "i", "r", "t">>), Str(<<"K", "I", "D", "D", "O">>), Str(<<"c", "o", "t", "t", "o", "n">>), Str(<<"r", ".", "m", "p", "e", "r">>), Str(<<"s", "a", "r", "e", "e">>)}

Limits == {0, 1, 2, 50, 200, 201}

\* One GET /api/products request.  FastAPI checks limit against ge and le
\* before list_products runs.
ListProducts ==
    \E category \in Categories, q \in Queries, limit \in Limits :
        /\ req' = [op |-> "list_products", category |-> category, q |-> q, limit |-> limit]
        /\ resp' = IF limit < limit_ge \/ limit > limit_le
                   THEN RequestValidationError
                   ELSE list_products(category, q, limit)
        /\ UNCHANGED <<db, product, order, nextId, pc, existing, inserted, serIn, serOut, nCreated>>

\* ------------------------------------------------------------------ schemas

Field(d, k, default) == IF k \in DOMAIN d THEN d[k] ELSE default

HasStr(d, k) == k \in DOMAIN d /\ d[k].t = "str"

HasNumber(d, k) == k \in DOMAIN d /\ d[k].t \in {"float", "int"}

\* a JSON number read into a float field
AsFloat(x) == IF x.t = "int" THEN Float(FloatOfInt(x.v)) ELSE x

\* OrderItem: product_id, title and price_bdt are required; quantity is an int >= 1
OrderItem_valid(d) ==
    /\ HasStr(d, "product_id")
    /\ HasStr(d, "title")
    /\ HasNumber(d, "price_bdt")
    /\ "quantity" \in DOMAIN d => (d["quantity"].t = "int" /\ d["quantity"].v >= 1)

OrderItem(d) ==
    [product_id |-> d["product_id"],
     title |-> d["title"],
     price_bdt |-> AsFloat(d["price_bdt"]),
     quantity |-> Field(d, "quantity", IntV(1)),
     size |-> Field(d, "size", None),
     color |-> Field(d, "color", None),
     image |-> Field(d, "image", None)]

ShippingAddress_valid(d) ==
    /\ HasStr(d, "name")
    /\ HasStr(d, "phone")
    /\ HasStr(d, "address_line")

ShippingAddress(d) ==
    [name |-> d["name"],
     phone |-> d["phone"],
     address_line |-> d["address_line"],
     city |-> Field(d, "city", Str(<<"D", "h", "a", "k", "a">>)),
     area |-> Field(d, "area", None),
     notes |-> Field(d, "notes", None)]

PaymentInfo ==
    [method |-> Str(<<"C", "O", "D">>), status |-> Str(<<"p", "e", "n", "d", "i", "n", "g">>), transaction_id |-> None]

OrderStatuses ==
    {Str(<<"p", "e", "n", "d", "i", "n", "g">>), Str(<<"p", "r", "o", "c", "e", "s", "s", "i", "n", "g">>), Str(<<"s", "h", "i", "p", "p", "e", "d">>), Str(<<"d", "e", "l", "i", "v", "e", "r", "e", "d">>), Str(<<"c", "a", "n", "c", "e", "l", "l", "e", "d">>)}

Order_valid(b) ==
    /\ "items" \in DOMAIN b
    /\ b["items"].t = "list"
    /\ \A i \in DOMAIN b["items"].v :
          b["items"].v[i].t = "dict" /\ OrderItem_valid(b["items"].v[i].v)
    /\ "shipping" \in DOMAIN b
    /\ b["shipping"].t = "dict"
    /\ ShippingAddress_valid(b["shipping"].v)
    /\ \A k \in {"subtotal_bdt", "delivery_fee_bdt", "total_bdt"} :
          k \in DOMAIN b => b[k].t \in {"float", "int"}
    /\ "status" \in DOMAIN b => b["status"] \in OrderStatuses

\* The validated Order, defaults filled in; model_dump() gives the same fields as a dict.
Order(b) ==
    [items |-> List([i \in DOMAIN b["items"].v |-> Dict(OrderItem(b["items"].v[i].v))]),
     shipping |-> Dict(ShippingAddress(b["shipping"].v)),
     subtotal_bdt |-> AsFloat(Field(b, "subtotal_bdt", Float(FZero))),
     delivery_fee_bdt |-> AsFloat(Field(b, "delivery_fee_bdt", Float(FZero))),
     total_bdt |-> AsFloat(Field(b, "total_bdt", Float(FZero))),
     payment |-> Dict(PaymentInfo),
     status |-> Field(b, "status", Str(<<"p", "e", "n", "d", "i", "n", "g">>))]

\* ------------------------------------------------------------- create_order

\* sum(item.price_bdt * item.quantity for item in order.items): the products
\* added from the left, starting from 0.  (From CPython 3.12 on sum() carries a
\* compensation term; it is zero when every partial sum is exact, as here,
\* where each list of several items holds whole amounts.)
RECURSIVE SumFrom(_, _, _)
SumFrom(items, i, acc) ==
    IF i > Len(items) THEN acc
    ELSE SumFrom(items, i + 1,
                 FAdd(acc, FMulInt(items[i].v.price_bdt.v, items[i].v.quantity.v)))

order_subtotal(o) == SumFrom(o.items.v, 1, FZero)

delivery_fee == FloatOfInt(80)

\* the total taken from the request instead of recomputed
order_total_client(o) == o.total_bdt.v

order_total(o) == FAdd(order_subtotal(o), delivery_fee)

\* order.model_dump() with the three totals overwritten
order_dict(o) ==
    [o EXCEPT !.subtotal_bdt = Float(round2(order_subtotal(o))),
              !.delivery_fee_bdt = Float(delivery_fee),
              !.total_bdt = Float(round2(order_total(o)))]

OrderResponse(order_id, status, total_bdt) ==
    Response(200, Dict([order_id |-> Str(order_id), status |-> Str(status), total_bdt |-> Float(total_bdt)]))

order_response(o, order_id) == OrderResponse(order_id, <<"r", "e", "c", "e", "i", "v", "e", "d">>, round2(order_total(o)))

\* the request bodies submitted
ShippingOk ==
    [name |-> Str(<<"R", "a", "h", "i", "m">>), phone |-> Str(<<"0", "1", "7", "0", "0", "0", "0", "0", "0", "0", "0">>), address_line |-> Str(<<"1", "2", " ", "L", "a", "k", "e", " ", "R", "o", "a", "d">>)]

ShippingNoPhone == [name |-> Str(<<"R", "a", "h", "i", "m">>), address_line |-> Str(<<"1", "2", " ", "L", "a", "k", "e", " ", "R", "o", "a", "d">>)]

ItemShirt ==
    Dict([product_id |-> Str(str(NewObjectId(1))), title |-> Str(<<"B", "o", "y", "s", " ", "C", "o", "t", "t", "o", "n", " ", "T", "-", "S", "h", "i", "r", "t">>),
          price_bdt |-> IntV(450), quantity |-> IntV(2)])

ItemDress ==
    Dict([product_id |-> Str(str(NewObjectId(2))), title |-> Str(<<"G", "i", "r", "l", "s", " ", "F", "l", "o", "r", "a", "l", " ", "D", "r", "e", "s", "s">>),
          price_bdt |-> Float(FloatOfInt(1250))])

ItemNegative ==
    Dict([product_id |-> Str(<<"n", "o", "n", "e">>), title |-> Str(<<"R", "e", "f", "u", "n", "d">>),
          price_bdt |-> Float(FloatOfInt(-1)), quantity |-> IntV(1)])

ItemZeroQuantity ==
    Dict([product_id |-> Str(str(NewObjectId(1))), title |-> Str(<<"B", "o", "y", "s", " ", "C", "o", "t", "t", "o", "n", " ", "T", "-", "S", "h", "i", "r", "t">>),
          price_bdt |-> Float(FloatOfInt(450)), quantity |-> IntV(0)])

ItemNoTitle ==
    Dict([product_id |-> Str(str(NewObjectId(1))), price_bdt |-> Float(FloatOfInt(450)), quantity |-> IntV(1)])

\* a price of a cent and a half: 0.015
ItemSweet ==
    Dict([product_id |-> Str(<<"n", "o", "n", "e">>), title |-> Str(<<"S", "w", "e", "e", "t">>),
          price_bdt |-> Float(FloatOfRatio(FALSE, 15, 1000)), quantity |-> IntV(1)])

\* 2.68 x 3
ItemRibbon ==
    Dict([product_id |-> Str(<<"n", "o", "n", "e">>), title |-> Str(<<"R", "i", "b", "b", "o", "n">>),
          price_bdt |-> Float(FloatOfRatio(FALSE, 268, 100)), quantity |-> IntV(3)])

\* baskets of whole amounts: shirts and dresses in turn, up to MaxItems items
Basket(n) == [i \in 1..n |-> IF i % 2 = 1 THEN ItemShirt ELSE ItemDress]

ItemLists == { Basket(n) : n \in 0..MaxItems }

\* what the client may put in the three total fields: nothing, or totals of its own
ClientTotals ==
    { <<>>,
      [subtotal_bdt |-> IntV(1000), delivery_fee_bdt |-> IntV(0), total_bdt |-> IntV(1000)] }

Body(items, shipping, extra) ==
    [items |-> List(items), shipping |-> Dict(shipping)] @@ extra

OrderBodies ==
    { Body(items, ShippingOk, totals) : items \in ItemLists, totals \in ClientTotals }
    \cup { Body(<<ItemShirt>>, ShippingOk, [status |-> Str(s)]) :
             s \in {<<"p", "e", "n", "d", "i", "n", "g">>, <<"d", "e", "l", "i", "v", "e", "r", "e", "d">>, <<"r", "e", "f", "u", "n", "d", "e", "d">>} }
    \cup { Body(items, ShippingOk, <<>>) :
             items \in { <<ItemNegative>>, <<ItemShirt, ItemNegative>>, <<ItemSweet>>,
                         <<ItemRibbon>>, <<ItemZeroQuantity>>, <<ItemShirt, ItemNoTitle>> } }
    \cup { Body(<<ItemShirt>>, ShippingNoPhone, <<>>), [items |-> List(<<ItemShirt>>)] }

\* the document of an order without its identifier
Content(doc) == [k \in DOMAIN doc.v \ {"_id"} |-> doc.v[k]]

\* create_order that answers a repeated submission with the order it already stored
CreateOrderDedup ==
    \E b \in OrderBodies :
        /\ Len(order) < MaxOrders
        /\ req' = [op |-> "create_order", body |-> b]
        /\ IF ~Order_valid(b)
           THEN /\ resp' = RequestValidationError
                /\ UNCHANGED <<order, nextId, nCreated>>
           ELSE IF db = "None"
           THEN /\ resp' = DatabaseNotConfigured
                /\ UNCHANGED <<order, nextId, nCreated>>
           ELSE LET o == Order(b)
                    same == {i \in DOMAIN order : Content(order[i]) = order_dict(o)}
                IN  IF same # {}
                    THEN /\ resp' = order_response(o, str(order[CHOOSE i \in same : TRUE].v["_id"]))
                         /\ nCreated' = nCreated + 1
                         /\ UNCHANGED <<order, nextId>>
                    ELSE /\ order' = InsertOne(order, order_dict(o), nextId + 1)
                         /\ nextId' = nextId + 1
                         /\ nCreated' = nCreated + 1
                         /\ resp' = order_response(o, create_document_id(nextId + 1))
        /\ UNCHANGED <<db, product, pc, existing, inserted, serIn, serOut>>

\* One POST /api/orders request served from start to end.  FastAPI validates the
\* body against the Order schema before create_order runs.
CreateOrder ==
    \E b \in OrderBodies :
        /\ Len(order) < MaxOrders
        /\ req' = [op |-> "create_order", body |-> b]
        /\ IF ~Order_valid(b)
           THEN /\ resp' = RequestValidationError
                /\ UNCHANGED <<order, nextId, nCreated>>
           ELSE IF db = "None"
           THEN /\ resp' = DatabaseNotConfigured
                /\ UNCHANGED <<order, nextId, nCreated>>
           ELSE LET o == Order(b)
                IN  /\ order' = InsertOne(order, order_dict(o), nextId + 1)
                    /\ nextId' = nextId + 1
                    /\ nCreated' = nCreated + 1
                    /\ resp' = order_response(o, create_document_id(nextId + 1))
        /\ UNCHANGED <<db, product, pc, existing, inserted, serIn, serOut>>

\* -------------------------------------------- seed_products, step by step

\* A seed request arrives and runs to its first store operation and past the
\* test of its result: db["product"].count_documents({}), `if existing > 0`.
SeedCount(p) ==
    /\ pc[p] = "idle"
    /\ req' = [op |-> "seed_products", proc |-> p]
    /\ IF db = "None"
       THEN /\ resp' = DatabaseNotConfigured
            /\ pc' = [pc EXCEPT ![p] = "done"]
            /\ UNCHANGED existing
       ELSE /\ existing' = [existing EXCEPT ![p] = Len(product)]
            /\ IF seed_skip(Len(product))
               THEN /\ resp' = ProductsAlreadyExist(Len(product))
                    /\ pc' = [pc EXCEPT ![p] = "done"]
               ELSE /\ resp' = resp
                    /\ pc' = [pc EXCEPT ![p] = "insert"]
    /\ UNCHANGED <<db, product, order, nextId, inserted, serIn, serOut, nCreated>>

\* One turn of `for p in samples`: create_document("product", p); inserted += 1
SeedInsert(p) ==
    /\ pc[p] = "insert"
    /\ inserted[p] < Len(samples)
    /\ product' = InsertOne(product, samples[inserted[p] + 1], nextId + 1)
    /\ nextId' = nextId + 1
    /\ inserted' = [inserted EXCEPT ![p] = inserted[p] + 1]
    /\ UNCHANGED <<db, order, req, resp, pc, existing, serIn, serOut, nCreated>>

\* The loop is over: the request answers with its count.
SeedReturn(p) ==
    /\ pc[p] = "insert"
    /\ inserted[p] = Len(samples)
    /\ req' = [op |-> "seed_products", proc |-> p]
    /\ resp' = SeededSampleProducts(inserted[p])
    /\ pc' = [pc EXCEPT ![p] = "done"]
    /\ UNCHANGED <<db, product, order, nextId, existing, inserted, serIn, serOut, nCreated>>

\* ------------------------------------------------- serialize_mongo, alone

OidA == ObjectIdV(<<"5", "0", "7", "f", "1", "f", "7", "7", "b", "c", "f", "8", "6", "c", "d", "7", "9", "9", "4", "3", "9", "0", "1", "1">>)
OidB == ObjectIdV(<<"5", "0", "7", "f", "1", "9", "1", "e", "8", "1", "0", "c", "1", "9", "7", "2", "9", "d", "e", "8", "6", "0", "e", "a">>)

SerValues ==
    { Str(<<"K", "i", "d", "d", "o">>), IntV(7), OidB, Dict([ref |-> OidB]), List(<<OidB>>) }

\* the documents serialize_mongo is applied to: absent, empty, and every
\* choice of a key _id and of two more keys with values of each kind
SerDocs ==
    { None }
    \cup { Dict(i @@ o @@ m) :
             i \in { <<>>, "_id" :> OidA },
             o \in { <<>> } \cup { "owner" :> x : x \in SerValues },
             m \in { <<>> } \cup { "meta" :> x : x \in SerValues } }

Serialize ==
    /\ serOut = Unset
    /\ serOut' = serialize_mongo(serIn)
    /\ UNCHANGED <<db, product, order, nextId, req, resp, pc, existing, inserted, serIn, nCreated>>

\* ------------------------------------------------------------ specification

Procs == 1..NumProcs

Init ==
    /\ db \in {"None", "Database"}
    /\ product = <<>>
    /\ order = <<>>
    /\ nextId = 0
    /\ req = NoRequest
    /\ resp = Unset
    /\ pc = [p \in Procs |-> "idle"]
    /\ existing = [p \in Procs |-> 0]
    /\ inserted = [p \in Procs |-> 0]
    /\ serIn = None
    /\ serOut = Unset
    /\ nCreated = 0

\* Requests served one after another: the writes of the two collections.
Next ==
    \/ SeedProducts
    \/ CreateOrder

Spec == Init /\ [][Next]_vars

\* Requests served one after another: the product catalogue and its reads.
NextProducts ==
    \/ SeedProducts
    \/ GetProduct
    \/ ListProducts

SpecProducts == Init /\ [][NextProducts]_vars

\* Seed requests served concurrently, interleaved at their store operations.
NextSeed ==
    \E p \in Procs :
        \/ SeedCount(p)
        \/ SeedInsert(p)
        \/ SeedReturn(p)

SpecSeed == Init /\ [][NextSeed]_vars

\* serialize_mongo applied to one document.
InitSerialize ==
    /\ db = "Database"
    /\ product = <<>>
    /\ order = <<>>
    /\ nextId = 0
    /\ req = NoRequest
    /\ resp = Unset
    /\ pc = [p \in Procs |-> "idle"]
    /\ existing = [p \in Procs |-> 0]
    /\ inserted = [p \in Procs |-> 0]
    /\ serIn \in SerDocs
    /\ serOut = Unset
    /\ nCreated = 0

NextSerialize == Serialize

SpecSerialize == InitSerialize /\ [][NextSerialize]_vars

\* ------------------------------------------------------------------ claims

\* a create_order request was answered 200
Created == req.op = "create_order" /\ resp.code = 200

\* the price of an item of a body or of a stored order, as a float
PriceOf(it) ==
    IF it["price_bdt"].t = "int" THEN FloatOfInt(it["price_bdt"].v) ELSE it["price_bdt"].v

\* Sigma price_bdt * quantity over the items of a body or of a stored order;
\* an item without quantity counts once
RECURSIVE ItemsSum(_, _)
ItemsSum(items, i) ==
    IF i = 0 THEN FZero
    ELSE FAdd(ItemsSum(items, i - 1),
              FMulInt(PriceOf(items[i].v),
                      IF "quantity" \in DOMAIN items[i].v THEN items[i].v["quantity"].v ELSE 1))

Subtotal(items) == ItemsSum(items, Len(items))

\* a float that is a whole number: m * 2^e with the -e low bits of m all zero
IsWhole(x) ==
    \/ x.m = <<>>
    \/ x.e >= 0
    \/ (x.e > -53 /\ ShiftLeft(ShiftRight(x.m, -x.e), -x.e) = x.m)

WholePrices(items) == \A i \in DOMAIN items : IsWhole(PriceOf(items[i].v))

\* C1: for whole prices, the total_bdt create_order returns is round(sum of
\* price_bdt * quantity, 2) + 80.0, whatever subtotal_bdt, delivery_fee_bdt
\* and total_bdt the body held.
C1_TotalRecomputed ==
    (Created /\ WholePrices(req.body["items"].v)) =>
        resp.body.v["total_bdt"]
            = Float(FAdd(round2(Subtotal(req.body["items"].v)), FloatOfInt(80)))

\* The scenario of two items, 450 x 2 and 1250 x 1, sent with totals of the
\* client's own: 2230.00 comes back.
C1_Witness ==
    /\ Created
    /\ "total_bdt" \in DOMAIN req.body
    /\ req.body["total_bdt"] = IntV(1000)
    /\ Len(req.body["items"].v) = 2
    /\ resp.body.v["total_bdt"] = Float(FloatOfInt(2230))

\* C2: every stored order has total_bdt = subtotal_bdt + delivery_fee_bdt with
\* delivery_fee_bdt = 80.0, and the three fields are the values computed from
\* its items, not the ones of the request.
C2_StoredTotals ==
    /\ \A i \in DOMAIN order :
          LET d == order[i].v
          IN  /\ d["total_bdt"].v = FAdd(d["subtotal_bdt"].v, d["delivery_fee_bdt"].v)
              /\ d["delivery_fee_bdt"] = Float(FloatOfInt(80))
              /\ d["subtotal_bdt"] = Float(round2(Subtotal(d["items"].v)))
    /\ Created =>
          LET d == order[Len(order)].v
          IN  d["subtotal_bdt"] = Float(round2(Subtotal(req.body["items"].v)))

\* C3: a successful create_order answers status "received" and every stored
\* order has status "pending", whatever status the draft held.
C3_StoredStatusPending ==
    /\ Created => resp.body.v["status"] = Str(<<"r", "e", "c", "e", "i", "v", "e", "d">>)
    /\ \A i \in DOMAIN order : order[i].v["status"] = Str(<<"p", "e", "n", "d", "i", "n", "g">>)

SeedAnswered == req.op = "seed_products" /\ db # "None"

\* C4: seed_products calls made one after another never leave more than the 4
\* sample products: a call on the empty collection inserts 4 and reports
\* inserted=4, a call on a non-empty one inserts nothing and reports the
\* existing count with "Products already exist".
C4_SeedIdempotent ==
    /\ [](Len(product) <= 4)
    /\ [][SeedAnswered' =>
            IF Len(product) = 0
            THEN /\ Len(product') = 4
                 /\ resp' = Response(200, Dict([message |-> Str(<<"S", "e", "e", "d", "e", "d", " ", "s", "a", "m", "p", "l", "e", " ", "p", "r", "o", "d", "u", "c", "t", "s">>),
                                                inserted |-> IntV(4)]))
            ELSE /\ product' = product
                 /\ resp' = Response(200, Dict([message |-> Str(<<"P", "r", "o", "d", "u", "c", "t", "s", " ", "a", "l", "r", "e", "a", "d", "y", " ", "e", "x", "i", "s", "t">>),
                                                count |-> IntV(Len(product))]))]_vars

C4_Witness ==
    /\ SeedAnswered
    /\ Len(product) = 4
    /\ resp.body.v["message"] = Str(<<"P", "r", "o", "d", "u", "c", "t", "s", " ", "a", "l", "r", "e", "a", "d", "y", " ", "e", "x", "i", "s", "t">>)
    /\ resp.body.v["count"] = IntV(4)

HexDigits ==
    {"0", "1", "2", "3", "4", "5", "6", "7", "8", "9",
     "a", "b", "c", "d", "e", "f", "A", "B", "C", "D", "E", "F"}

WellFormedId(s) == Len(s) = 24 /\ \A i \in DOMAIN s : s[i] \in HexDigits

\* the product documents whose identifier reads as s
Holders(s) == {i \in DOMAIN product : product[i].v["_id"].v = Lower(s)}

Ids(coll) == {coll[i].v["_id"] : i \in DOMAIN coll}

\* C6: every create_order answered 200 appends one order under an identifier
\* no stored order has and leaves the stored orders and the products as they
\* were; n such calls leave n orders.
C6_NoDeduplication ==
    /\ [](nCreated = Len(order) /\ Cardinality(Ids(order)) = Len(order))
    /\ [][nCreated' # nCreated =>
            /\ Created'
            /\ Len(order') = Len(order) + 1
            /\ SubSeq(order', 1, Len(order)) = order
            /\ order'[Len(order')].v["_id"] \notin Ids(order)
            /\ resp'.body.v["order_id"] = Str(str(order'[Len(order')].v["_id"]))
            /\ product' = product]_vars

\* two identical submissions, two orders
C6_Witness ==
    \E i, j \in DOMAIN order :
        /\ i < j
        /\ Content(order[i]) = Content(order[j])
        /\ order[i].v["_id"] # order[j].v["_id"]
        /\ nCreated = 2

ItemViolates(it) ==
    \/ ~({"product_id", "title", "price_bdt"} \subseteq DOMAIN it)
    \/ (it["price_bdt"].t = "int" /\ it["price_bdt"].v < 0)
    \/ (it["price_bdt"].t = "float" /\ it["price_bdt"].v.neg)
    \/ ("quantity" \in DOMAIN it /\ it["quantity"].v < 1)

BodyViolates(b) ==
    /\ "items" \in DOMAIN b
    /\ \E i \in DOMAIN b["items"].v : ItemViolates(b["items"].v[i].v)

\* C7: a draft with an item of price < 0 or quantity < 1, or without a
\* required field, is answered 422 and no order is stored.
C7_ItemConstraintsRejected ==
    [][(req'.op = "create_order" /\ BodyViolates(req'.body)) =>
          (resp'.code = 422 /\ order' = order)]_vars

QMatches(d, q) ==
    \/ q = None
    \/ \E k \in {"title", "description", "brand"} :
          k \in DOMAIN d /\ d[k].t = "str" /\ RegexSearch(q.v, d[k].v, "i")

\* list_products answered with documents that all satisfy Wanted, with at
\* most limit of them, and with all of them when at most limit satisfy it
ListedAre(Wanted(_)) ==
    (req.op = "list_products" /\ resp.code = 200) =>
        LET out == resp.body.v
            hits == {i \in DOMAIN product : Wanted(product[i].v)}
        IN  /\ \A j \in DOMAIN out : \E i \in hits : out[j] = serialize_mongo(product[i])
            /\ Len(out) <= req.limit
            /\ Cardinality(hits) <= req.limit =>
                  \A i \in hits : \E j \in DOMAIN out : out[j] = serialize_mongo(product[i])

\* C8 as stated: only documents whose category equals the category given,
\* when one is given, and that q matches, when one is given; at most limit;
\* all of them when there are at most limit.
C8_FilterComposition ==
    ListedAre(LAMBDA d : (req.category = None \/ d["category"] = req.category)
                         /\ QMatches(d, req.q))

\* C8 amended: a category given as the empty string filters nothing.
C8_FilterCompositionAmended ==
    ListedAre(LAMBDA d : (req.category = None \/ req.category = Str(<<>>)
                          \/ d["category"] = req.category)
                         /\ QMatches(d, req.q))

C8_Witness ==
    /\ req.op = "list_products"
    /\ req.category = Str(<<"B", "o", "y", "s">>)
    /\ req.q = Str(<<"s", "h", "i", "r", "t">>)
    /\ resp.code = 200
    /\ Len(resp.body.v) = 1
    /\ resp.body.v[1].v["brand"] = Str(<<"K", "i", "d", "d", "o">>)

RECURSIVE HasObjectId(_)
HasObjectId(x) ==
    \/ x.t = "ObjectId"
    \/ x.t = "dict" /\ \E k \in DOMAIN x.v : HasObjectId(x.v[k])
    \/ x.t = "list" /\ \E i \in DOMAIN x.v : HasObjectId(x.v[i])

\* C9: a serialized document holds no ObjectId at any depth: _id is gone, id
\* is its string form, every other ObjectId is replaced by its string form;
\* an absent document is returned as it is.
C9_NoObjectIdLeft ==
    serOut # Unset =>
        IF serIn = None THEN serOut = None
        ELSE /\ ~HasObjectId(serOut)
             /\ "_id" \notin DOMAIN serOut.v
             /\ "_id" \in DOMAIN serIn.v => serOut.v["id"] = Str(serIn.v["_id"].v)

\* C10: however the store operations of concurrent seed_products requests
\* interleave, the product collection never holds more than the 4 samples.
C10_ConcurrentSeedBounded == Len(product) <= 4

====
